---- MODULE Spec2Model ----
(***************************************************************************)
(* Model of src/src/main.rs: two fund-transfer strategies (good_transfer,  *)
(* the Strict strategy, and bad_transfer, the Relaxed strategy) run as     *)
(* concurrent units of work against a Postgres store.                      *)
(*                                                                         *)
(* The store is modelled at the isolation level pool.begin() opens         *)
(* (READ COMMITTED): a statement sees the committed rows plus the rows its *)
(* own transaction wrote; a row written by a transaction stays locked      *)
(* until that transaction commits or rolls back; an UPDATE that finds its  *)
(* row locked waits and then works on the latest committed version; an     *)
(* INSERT .. ON CONFLICT waits for an uncommitted conflicting row.         *)
(* Dropping a sqlx Transaction without commit() rolls it back.             *)
(***************************************************************************)
EXTENDS Integers, FiniteSets, Sequences, TLC

(* ------------------------------ bounds -------------------------------- *)

\* number of transfer invocations the driver spawns (10000 in main)
NumTasks == 2

\* number of connections of the pool (128 in main)
PoolSize == 2

\* largest amount a caller passes
MaxAmount == 4

\* balance every seeded account is created with (1000 in main)
InitialBalance == 3

\* number of add_account calls made while transfers run
MaxAdds == 3

\* largest amount of a ledger entry the verifier is run on
MaxLedgerAmount == 2

\* scaled width of the amount parameter (u64 in the source) and of the
\* signed integer it is cast to (i64 in the source)
WordBits == 6

\* seeded accounts, and one address that is never seeded
Seeded == {"0x0", "0x1"}

Addresses == Seeded \cup {"0x2"}

Hashes == {"0", "1"}

Tasks == 1..NumTasks

Amounts == 1..MaxAmount

\* `let amount = 3;` of the driver
DriverAmount == 3

\* `let from = format!("0x{0:x}", 0);` of the driver
DriverFrom == "0x0"

Strategies == {"Strict", "Relaxed"}

\* the pool size with which transfers run one at a time
SeqPoolSize == 1

\* the initial balances passed to add_account
AddInitials == {1, InitialBalance}

(* --------------------------- pure helpers ------------------------------ *)

Pow2(n) ==
  LET F[i \in 0..n] == IF i = 0 THEN 1 ELSE 2 * F[i - 1] IN F[n]

\* `amount as i64`: reinterpretation of the unsigned word as a signed one
AsI64(amount) ==
  IF amount >= Pow2(WordBits - 1) THEN amount - Pow2(WordBits) ELSE amount

\* the values column balance (BIGINT, scaled to WordBits bits) can hold
InRange(b) == b >= 0 - Pow2(WordBits - 1) /\ b <= Pow2(WordBits - 1) - 1

\* the amounts at the edges of the parameter's type and of the cast
WideAmounts ==
  {1, InitialBalance, Pow2(WordBits - 1) - 1, Pow2(WordBits - 1),
   Pow2(WordBits) - 1}

\* variant: the debit without its balance guard
GuardedDebitQual_NoGuard(balance, amount) == TRUE

\* WHERE ... AND balance >= $1 of the Strict debit
GuardedDebitQual(balance, amount) == balance >= amount

\* WHERE address = $2 of the Relaxed debit and credit: no condition on balance
UnconditionalQual(balance, amount) == TRUE

\* variant: the amount taken twice
DebitValue_Twice(balance, amount) == balance - amount - amount

\* SET balance = balance - $1
DebitValue(balance, amount) == balance - amount

\* variant: the credit leaves the balance as it was
CreditValue_Lost(balance, amount) == balance

\* SET balance = balance + $1, and accounts.balance + EXCLUDED.balance
CreditValue(balance, amount) == balance + amount

\* variant: the application-level check rejects a balance equal to the amount
InsufficientCheck_OffByOne(balance, amount) == balance <= amount

\* variant: the application-level check left out
InsufficientCheck_Never(balance, amount) == FALSE

\* `if from_balance < amount as i64` of the Relaxed strategy
InsufficientCheck(balance, amount) == balance < amount

\* variant: sender and recipient written to each other's column
LedgerEntry_Swapped(a) ==
  [tx_hash |-> a.tx_hash, from_address |-> a.to, to_address |-> a.from,
   amount |-> AsI64(a.amount)]

LedgerEntry(a) ==
  [tx_hash |-> a.tx_hash, from_address |-> a.from, to_address |-> a.to,
   amount |-> AsI64(a.amount)]

NoArgs ==
  [strategy |-> "", tx_hash |-> "", from |-> "", to |-> "", amount |-> 0]

Ok(n) == [tag |-> "Ok", rows |-> n, err |-> "", addr |-> ""]

Err(kind, a) == [tag |-> "Err", rows |-> 0, err |-> kind, addr |-> a]

NoResult == [tag |-> "None", rows |-> 0, err |-> "", addr |-> ""]

Empty == [x \in {} |-> 0]

VARIABLES
  accounts,      \* committed rows of table accounts: address -> balance
  transaction,   \* committed rows of table transaction
  pc,            \* position of every invocation
  args,          \* strategy and (tx_hash, from, to, amount) of every invocation
  from_balance,  \* local of bad_transfer
  wAcct,         \* uncommitted account rows written by each unit of work
  wLedger,       \* uncommitted ledger rows inserted by each unit of work
  result,        \* what the invocation returned
  max_connections, \* the size the pool was built with
  main_pc,       \* position of main after the spawn loop
  diff,          \* what main's verification read returned
  adds,          \* the calls of add_account made so far, with their results
  all,           \* rows of ledger_consistency_verify's query not yet summed
  initial        \* the initial balance ledger_consistency_verify was given

vars == <<accounts, transaction, pc, args, from_balance, wAcct,
          wLedger, result, max_connections, main_pc, diff, adds, all,
          initial>>

\* the variables of main and of the callers of add_account
mainVars == <<max_connections, main_pc, diff, adds, all, initial>>

InFlight(t) == pc[t] \notin {"spawned", "done"}

ConnectionsInUse == Cardinality({t \in Tasks : InFlight(t)})

(* ------------------------- the store's rules --------------------------- *)

\* the unit of work, other than t, that holds the lock of account row a
AcctLockedByOther(t, a) == \E u \in Tasks \ {t} : a \in DOMAIN wAcct[u]

\* variant: an insert does not see uncommitted entries of its tx_hash
HashLockedByOther_NoWait(t, h) == FALSE

\* the unit of work, other than t, that holds an uncommitted ledger row h
HashLockedByOther(t, h) ==
  \E u \in Tasks \ {t} : \E e \in wLedger[u] : e.tx_hash = h

\* variant: no unique constraint on tx_hash
HashCommitted_Never(h) == FALSE

HashCommitted(h) == \E e \in transaction : e.tx_hash = h

\* UPDATE accounts SET balance = balance + delta WHERE address = a AND qual.
\* "own": the row was written by t itself; "norow": no visible row matches;
\* "wait": the matching row is locked by another unit of work; "row": the
\* committed row matches and is free.
UpdateCase(t, a, amount, guarded) ==
  LET Qual(b) == IF guarded THEN GuardedDebitQual(b, amount)
                            ELSE UnconditionalQual(b, amount)
  IN  IF a \in DOMAIN wAcct[t]
        THEN IF Qual(wAcct[t][a]) THEN "own" ELSE "norow"
      ELSE IF a \notin DOMAIN accounts THEN "norow"
      ELSE IF ~Qual(accounts[a]) THEN "norow"
      ELSE IF AcctLockedByOther(t, a) THEN "wait"
      ELSE "row"

\* variant: the Relaxed debit writes from_balance - amount, the value read
\* by its SELECT, instead of working on the row's latest version
Latest_Stale(t, a) ==
  IF pc[t] = "b_debit" THEN from_balance[t]
  ELSE IF a \in DOMAIN wAcct[t] THEN wAcct[t][a] ELSE accounts[a]

\* the version of row a an UPDATE of t works on
Latest(t, a) == IF a \in DOMAIN wAcct[t] THEN wAcct[t][a] ELSE accounts[a]

\* variant: a write forgets the rows the unit of work wrote before
WriteRow_Overwrite(t, a, b) == [x \in {a} |-> b]

\* t's uncommitted rows after writing balance b to row a
WriteRow(t, a, b) ==
  [x \in DOMAIN wAcct[t] \cup {a} |-> IF x = a THEN b ELSE wAcct[t][x]]

\* the committed table after t's rows are applied
Applied(t) ==
  [x \in DOMAIN accounts \cup DOMAIN wAcct[t] |->
     IF x \in DOMAIN wAcct[t] THEN wAcct[t][x] ELSE accounts[x]]

\* variant: the early return leaves the account rows it wrote in place
Return_KeepsWrites(t, res) ==
  /\ pc' = [pc EXCEPT ![t] = "done"]
  /\ result' = [result EXCEPT ![t] = res]
  /\ wAcct' = [wAcct EXCEPT ![t] = Empty]
  /\ wLedger' = [wLedger EXCEPT ![t] = {}]
  /\ accounts' = [x \in DOMAIN accounts \cup DOMAIN wAcct[t] |->
                   IF x \in DOMAIN wAcct[t] THEN wAcct[t][x] ELSE accounts[x]]
  /\ UNCHANGED <<mainVars, transaction, args, from_balance>>

\* variant: the ledger insert is not part of the unit of work and survives
\* the early return
Return_KeepsLedger(t, res) ==
  /\ pc' = [pc EXCEPT ![t] = "done"]
  /\ result' = [result EXCEPT ![t] = res]
  /\ wAcct' = [wAcct EXCEPT ![t] = Empty]
  /\ wLedger' = [wLedger EXCEPT ![t] = {}]
  /\ transaction' = transaction \cup wLedger[t]
  /\ UNCHANGED <<mainVars, accounts, args, from_balance>>

\* the invocation returns res without commit(): the Transaction is dropped,
\* which rolls the unit of work back
Return(t, res) ==
  /\ pc' = [pc EXCEPT ![t] = "done"]
  /\ result' = [result EXCEPT ![t] = res]
  /\ wAcct' = [wAcct EXCEPT ![t] = Empty]
  /\ wLedger' = [wLedger EXCEPT ![t] = {}]
  /\ UNCHANGED <<mainVars, accounts, transaction, args, from_balance>>

(* ------------------------------ the driver ----------------------------- *)

Init ==
  /\ accounts = [a \in Seeded |-> InitialBalance]
  /\ transaction = {}
  /\ pc = [t \in Tasks |-> "spawned"]
  /\ args = [t \in Tasks |-> NoArgs]
  /\ from_balance = [t \in Tasks |-> 0]
  /\ wAcct = [t \in Tasks |-> Empty]
  /\ wLedger = [t \in Tasks |-> {}]
  /\ result = [t \in Tasks |-> NoResult]
  /\ max_connections \in 1..PoolSize
  /\ main_pc = "join"
  /\ diff = 0
  /\ adds = << >>
  /\ all = {}
  /\ initial = InitialBalance

\* invocations are numbered in the order in which they leave pool.begin()
NextToBegin(t) == \A u \in Tasks : u < t => pc[u] # "spawned"

\* pool.begin() hands out a connection
Begin(t) ==
  /\ pc[t] = "spawned"
  /\ NextToBegin(t)
  /\ ConnectionsInUse < max_connections
  /\ \E s \in Strategies, h \in Hashes, f \in Addresses, o \in Addresses,
        m \in Amounts :
       /\ args' = [args EXCEPT ![t] = [strategy |-> s, tx_hash |-> h,
                                       from |-> f, to |-> o, amount |-> m]]
       /\ pc' = [pc EXCEPT ![t] = IF s = "Strict" THEN "g_insert"
                                                   ELSE "b_select"]
  /\ UNCHANGED <<mainVars, accounts, transaction, from_balance, wAcct, wLedger, result>>

\* pool.begin() in a task spawned as main spawns them: the sender and the
\* amount are the driver's
BeginDriver(t) ==
  /\ pc[t] = "spawned"
  /\ NextToBegin(t)
  /\ ConnectionsInUse < max_connections
  /\ \E s \in Strategies, h \in Hashes, o \in Addresses :
       /\ args' = [args EXCEPT ![t] = [strategy |-> s, tx_hash |-> h,
                                       from |-> DriverFrom, to |-> o,
                                       amount |-> DriverAmount]]
       /\ pc' = [pc EXCEPT ![t] = IF s = "Strict" THEN "g_insert"
                                                   ELSE "b_select"]
  /\ UNCHANGED <<mainVars, accounts, transaction, from_balance, wAcct, wLedger, result>>

\* pool.begin() for a call of good_transfer with an amount from the whole
\* range of the parameter's type
BeginWide(t) ==
  /\ pc[t] = "spawned"
  /\ NextToBegin(t)
  /\ ConnectionsInUse < max_connections
  /\ \E h \in Hashes, f \in Addresses, o \in Addresses, m \in WideAmounts :
       args' = [args EXCEPT ![t] = [strategy |-> "Strict", tx_hash |-> h,
                                    from |-> f, to |-> o, amount |-> m]]
  /\ pc' = [pc EXCEPT ![t] = "g_insert"]
  /\ UNCHANGED <<mainVars, accounts, transaction, from_balance, wAcct, wLedger, result>>

\* pool.begin() fails: the task logs a warning and returns
BeginFail(t) ==
  /\ pc[t] = "spawned"
  /\ NextToBegin(t)
  /\ pc' = [pc EXCEPT ![t] = "done"]
  /\ result' = [result EXCEPT ![t] = Err("BeginFailed", "")]
  /\ UNCHANGED <<mainVars, accounts, transaction, args, from_balance, wAcct, wLedger>>

\* main with a pool of one connection: no two units of work overlap
InitSeq ==
  /\ accounts = [a \in Seeded |-> InitialBalance]
  /\ transaction = {}
  /\ pc = [t \in Tasks |-> "spawned"]
  /\ args = [t \in Tasks |-> NoArgs]
  /\ from_balance = [t \in Tasks |-> 0]
  /\ wAcct = [t \in Tasks |-> Empty]
  /\ wLedger = [t \in Tasks |-> {}]
  /\ result = [t \in Tasks |-> NoResult]
  /\ max_connections = SeqPoolSize
  /\ main_pc = "join"
  /\ diff = 0
  /\ adds = << >>
  /\ all = {}
  /\ initial = InitialBalance

\* the state after clean_up and before any account is added
InitAdd ==
  /\ accounts = Empty
  /\ transaction = {}
  /\ pc = [t \in Tasks |-> "spawned"]
  /\ args = [t \in Tasks |-> NoArgs]
  /\ from_balance = [t \in Tasks |-> 0]
  /\ wAcct = [t \in Tasks |-> Empty]
  /\ wLedger = [t \in Tasks |-> {}]
  /\ result = [t \in Tasks |-> NoResult]
  /\ max_connections \in 1..PoolSize
  /\ main_pc = "join"
  /\ diff = 0
  /\ adds = << >>
  /\ all = {}
  /\ initial = InitialBalance

\* variant: the insert overwrites the balance of an existing row
AddAccountRows_Overwrite(address, initial_balance) ==
  [rows |-> 1,
   accounts |-> [x \in DOMAIN accounts \cup {address} |->
                   IF x = address THEN AsI64(initial_balance) ELSE accounts[x]]]

\* INSERT INTO accounts (address, balance) VALUES ($1, $2) ON CONFLICT DO
\* NOTHING: the rows affected and the table after the statement
AddAccountRows(address, initial_balance) ==
  IF address \in DOMAIN accounts
    THEN [rows |-> 0, accounts |-> accounts]
    ELSE [rows |-> 1,
          accounts |-> [x \in DOMAIN accounts \cup {address} |->
                          IF x = address THEN AsI64(initial_balance) ELSE accounts[x]]]

\* add_account(&pool, address, initial) on a pool connection, outside any
\* unit of work; the insert waits for an uncommitted row of its address
add_account(address, initial_balance) ==
  /\ Len(adds) < MaxAdds
  /\ ConnectionsInUse < max_connections
  /\ address \notin DOMAIN accounts =>
       \A u \in Tasks : address \notin DOMAIN wAcct[u]
  /\ accounts' = AddAccountRows(address, initial_balance).accounts
  /\ adds' = Append(adds, [address |-> address, initial |-> initial_balance,
                           rows |-> AddAccountRows(address, initial_balance).rows])
  /\ UNCHANGED <<transaction, pc, args, from_balance, wAcct, wLedger, result,
                 max_connections, main_pc, diff, all, initial>>

\* variant: the verification read does not wait for the spawned tasks
JoinAll_NoWait == TRUE

\* futs.join_all().await returns once every spawned task has finished
JoinAll == \A t \in Tasks : pc[t] = "done"

\* account_balance_verify(&pool, &from): the committed balance of the source
account_balance_verify(address) == accounts[address]

\* main after the spawn loop: join_all, then the verification read
Verify ==
  /\ main_pc = "join"
  /\ JoinAll
  /\ DriverFrom \in DOMAIN accounts
  /\ diff' = account_balance_verify(DriverFrom)
  /\ main_pc' = "verified"
  /\ UNCHANGED <<accounts, transaction, pc, args, from_balance, wAcct,
                 wLedger, result, max_connections, adds, all, initial>>

(* --------------------- ledger_consistency_verify ----------------------- *)

\* the balances and the ledger entries the verifier is run on
VerifyBalances == (0 - InitialBalance)..(2 * InitialBalance)

VerifyEntries ==
  [tx_hash : Hashes, from_address : Seeded, to_address : Seeded,
   amount : 1..MaxLedgerAmount]

\* tx_hash is the primary key of table transaction
VerifyLedgers ==
  {L \in SUBSET VerifyEntries :
     \A e, f \in L : e.tx_hash = f.tx_hash => e = f}

\* a store with any balances and any ledger, and main about to call the
\* verifier with any initial balance
InitVerify ==
  /\ \E D \in SUBSET Seeded : accounts \in [D -> VerifyBalances]
  /\ transaction \in VerifyLedgers
  /\ pc = [t \in Tasks |-> "spawned"]
  /\ args = [t \in Tasks |-> NoArgs]
  /\ from_balance = [t \in Tasks |-> 0]
  /\ wAcct = [t \in Tasks |-> Empty]
  /\ wLedger = [t \in Tasks |-> {}]
  /\ result = [t \in Tasks |-> NoResult]
  /\ max_connections = PoolSize
  /\ main_pc = "ledger_verify"
  /\ diff = 0
  /\ adds = << >>
  /\ all = {}
  /\ initial \in 0..InitialBalance

\* sum(amount) over rows of table transaction, 0 when there is none
RECURSIVE sum_amount(_)
sum_amount(rows) ==
  IF rows = {} THEN 0
  ELSE LET e == CHOOSE x \in rows : TRUE
       IN  e.amount + sum_amount(rows \ {e})

\* the LATERAL subquery aliased credit
credit(address) ==
  sum_amount({e \in transaction : e.from_address = address})

\* the LATERAL subquery aliased debit
debit(address) ==
  sum_amount({e \in transaction : e.to_address = address})

\* the query: one row per account
LedgerVerifyFetch ==
  /\ main_pc = "ledger_verify"
  /\ all' = {[address |-> a, balance |-> accounts[a],
              credit |-> credit(a), debit |-> debit(a)] :
                a \in DOMAIN accounts}
  /\ diff' = 0
  /\ main_pc' = "ledger_loop"
  /\ UNCHANGED <<accounts, transaction, pc, args, from_balance, wAcct,
                 wLedger, result, max_connections, adds, initial>>

\* what one turn of the loop adds to diff
RowDiff(row) ==
  IF row.balance # initial + row.credit - row.debit
    THEN row.balance - (initial + row.credit - row.debit)
    ELSE 0

\* one turn of `for row in all`
LedgerVerifyRow ==
  /\ main_pc = "ledger_loop"
  /\ \E row \in all :
       /\ diff' = diff + RowDiff(row)
       /\ all' = all \ {row}
  /\ UNCHANGED <<accounts, transaction, pc, args, from_balance, wAcct,
                 wLedger, result, max_connections, main_pc, adds, initial>>

\* Ok(diff)
LedgerVerifyReturn ==
  /\ main_pc = "ledger_loop"
  /\ all = {}
  /\ main_pc' = "ledger_verified"
  /\ UNCHANGED <<accounts, transaction, pc, args, from_balance, wAcct,
                 wLedger, result, max_connections, diff, adds, all, initial>>

NextVerify ==
  \/ LedgerVerifyFetch
  \/ LedgerVerifyRow
  \/ LedgerVerifyReturn

\* ledger_consistency_verify applied to a bounded store
SpecVerify == InitVerify /\ [][NextVerify]_vars

(* ------------------------ good_transfer (Strict) ----------------------- *)

\* INSERT INTO transaction .. ON CONFLICT DO NOTHING, then the check of
\* insert_rows
GoodInsert(t) ==
  /\ pc[t] = "g_insert"
  /\ IF HashCommitted(args[t].tx_hash)
       THEN Return(t, Ok(0))
       ELSE /\ ~HashLockedByOther(t, args[t].tx_hash)
            /\ wLedger' = [wLedger EXCEPT ![t] = @ \cup {LedgerEntry(args[t])}]
            /\ pc' = [pc EXCEPT ![t] = "g_debit"]
            /\ UNCHANGED <<mainVars, accounts, transaction, args, from_balance, wAcct,
                           result>>

\* UPDATE accounts SET balance = balance - $1 WHERE address = $2 AND
\* balance >= $1, then the check of update_from_rows
GoodDebit(t) ==
  /\ pc[t] = "g_debit"
  /\ LET a == args[t].from
         m == AsI64(args[t].amount)
         c == UpdateCase(t, a, m, TRUE)
     IN  /\ c # "wait"
         /\ IF c = "norow"
              THEN Return(t, Err("InsufficientFunds", a))
            ELSE IF ~InRange(DebitValue(Latest(t, a), m))
              THEN Return(t, Err("Sqlx", "bigint out of range"))
              ELSE /\ wAcct' = [wAcct EXCEPT ![t] =
                                  WriteRow(t, a, DebitValue(Latest(t, a), m))]
                   /\ pc' = [pc EXCEPT ![t] = "g_credit"]
                   /\ UNCHANGED <<mainVars, accounts, transaction, args, from_balance,
                                  wLedger, result>>

\* INSERT INTO accounts .. ON CONFLICT (address) DO UPDATE SET balance =
\* accounts.balance + EXCLUDED.balance: always affects one row
GoodCredit(t) ==
  /\ pc[t] = "g_credit"
  /\ LET a == args[t].to
         m == AsI64(args[t].amount)
         b == IF a \in DOMAIN wAcct[t] \cup DOMAIN accounts
                THEN CreditValue(Latest(t, a), m) ELSE m
     IN  /\ ~AcctLockedByOther(t, a)
         /\ IF ~InRange(b)
              THEN Return(t, Err("Sqlx", "bigint out of range"))
              ELSE /\ wAcct' = [wAcct EXCEPT ![t] = WriteRow(t, a, b)]
                   /\ pc' = [pc EXCEPT ![t] = "g_commit"]
                   /\ UNCHANGED <<mainVars, accounts, transaction, args,
                                  from_balance, wLedger, result>>

\* tx.commit() and Ok(update_from_rows)
GoodCommit(t) ==
  /\ pc[t] = "g_commit"
  /\ accounts' = Applied(t)
  /\ transaction' = transaction \cup wLedger[t]
  /\ wAcct' = [wAcct EXCEPT ![t] = Empty]
  /\ wLedger' = [wLedger EXCEPT ![t] = {}]
  /\ pc' = [pc EXCEPT ![t] = "done"]
  /\ result' = [result EXCEPT ![t] = Ok(1)]
  /\ UNCHANGED <<mainVars, args, from_balance>>

(* ------------------------ bad_transfer (Relaxed) ----------------------- *)

\* SELECT balance FROM accounts WHERE address = $1, a plain read of the
\* committed row, then the application-level check
BadSelect(t) ==
  /\ pc[t] = "b_select"
  /\ LET a == args[t].from
         m == AsI64(args[t].amount)
     IN  IF a \notin DOMAIN accounts
           THEN Return(t, Err("AccountNotFound", a))
         ELSE IF InsufficientCheck(accounts[a], m)
           THEN Return(t, Err("InsufficientFunds", a))
         ELSE /\ from_balance' = [from_balance EXCEPT ![t] = accounts[a]]
              /\ pc' = [pc EXCEPT ![t] = "b_debit"]
              /\ UNCHANGED <<mainVars, accounts, transaction, args, wAcct, wLedger,
                             result>>

\* UPDATE accounts SET balance = balance - $1 WHERE address = $2, then the
\* check of update_from_rows
BadDebit(t) ==
  /\ pc[t] = "b_debit"
  /\ LET a == args[t].from
         m == AsI64(args[t].amount)
         c == UpdateCase(t, a, m, FALSE)
     IN  /\ c # "wait"
         /\ IF c = "norow"
              THEN Return(t, Err("Other", "Failed to update sender account"))
            ELSE IF ~InRange(DebitValue(Latest(t, a), m))
              THEN Return(t, Err("Sqlx", "bigint out of range"))
              ELSE /\ wAcct' = [wAcct EXCEPT ![t] =
                                  WriteRow(t, a, DebitValue(Latest(t, a), m))]
                   /\ pc' = [pc EXCEPT ![t] = "b_credit"]
                   /\ UNCHANGED <<mainVars, accounts, transaction, args, from_balance,
                                  wLedger, result>>

\* UPDATE accounts SET balance = balance + $1 WHERE address = $2, then the
\* check of update_to_rows
BadCredit(t) ==
  /\ pc[t] = "b_credit"
  /\ LET a == args[t].to
         m == AsI64(args[t].amount)
         c == UpdateCase(t, a, m, FALSE)
     IN  /\ c # "wait"
         /\ IF c = "norow"
              THEN Return(t, Err("Other", "Failed to update recipient account"))
            ELSE IF ~InRange(CreditValue(Latest(t, a), m))
              THEN Return(t, Err("Sqlx", "bigint out of range"))
              ELSE /\ wAcct' = [wAcct EXCEPT ![t] =
                                  WriteRow(t, a, CreditValue(Latest(t, a), m))]
                   /\ pc' = [pc EXCEPT ![t] = "b_insert"]
                   /\ UNCHANGED <<mainVars, accounts, transaction, args, from_balance,
                                  wLedger, result>>

\* variant: the skipped transfer commits its debit and credit
BadInsert_CommitsOnSkip(t) ==
  /\ pc[t] = "b_insert"
  /\ IF HashCommitted(args[t].tx_hash)
       THEN /\ accounts' = Applied(t)
            /\ pc' = [pc EXCEPT ![t] = "done"]
            /\ result' = [result EXCEPT ![t] = Ok(0)]
            /\ wAcct' = [wAcct EXCEPT ![t] = Empty]
            /\ wLedger' = [wLedger EXCEPT ![t] = {}]
            /\ UNCHANGED <<mainVars, transaction, args, from_balance>>
       ELSE /\ ~HashLockedByOther(t, args[t].tx_hash)
            /\ wLedger' = [wLedger EXCEPT ![t] = @ \cup {LedgerEntry(args[t])}]
            /\ pc' = [pc EXCEPT ![t] = "b_commit"]
            /\ UNCHANGED <<mainVars, accounts, transaction, args, from_balance, wAcct,
                           result>>

\* INSERT INTO transaction .. ON CONFLICT DO NOTHING, then the check of
\* insert_rows: Ok(0) is returned without commit()
BadInsert(t) ==
  /\ pc[t] = "b_insert"
  /\ IF HashCommitted(args[t].tx_hash)
       THEN Return(t, Ok(0))
       ELSE /\ ~HashLockedByOther(t, args[t].tx_hash)
            /\ wLedger' = [wLedger EXCEPT ![t] = @ \cup {LedgerEntry(args[t])}]
            /\ pc' = [pc EXCEPT ![t] = "b_commit"]
            /\ UNCHANGED <<mainVars, accounts, transaction, args, from_balance, wAcct,
                           result>>

\* tx.commit() and Ok(insert_rows)
BadCommit(t) ==
  /\ pc[t] = "b_commit"
  /\ accounts' = Applied(t)
  /\ transaction' = transaction \cup wLedger[t]
  /\ wAcct' = [wAcct EXCEPT ![t] = Empty]
  /\ wLedger' = [wLedger EXCEPT ![t] = {}]
  /\ pc' = [pc EXCEPT ![t] = "done"]
  /\ result' = [result EXCEPT ![t] = Ok(1)]
  /\ UNCHANGED <<mainVars, args, from_balance>>

(* ------------------------- deadlock detection -------------------------- *)

AcctHolders(t, a) == {u \in Tasks \ {t} : a \in DOMAIN wAcct[u]}

HashHolders(t, h) ==
  {u \in Tasks \ {t} : \E e \in wLedger[u] : e.tx_hash = h}

\* the units of work the next statement of t waits for
WaitsFor(t) ==
  LET m == AsI64(args[t].amount) IN
  CASE pc[t] \in {"g_insert", "b_insert"} ->
         IF HashCommitted(args[t].tx_hash) THEN {}
         ELSE HashHolders(t, args[t].tx_hash)
    [] pc[t] = "g_debit" ->
         IF UpdateCase(t, args[t].from, m, TRUE) = "wait"
           THEN AcctHolders(t, args[t].from) ELSE {}
    [] pc[t] = "b_debit" ->
         IF UpdateCase(t, args[t].from, m, FALSE) = "wait"
           THEN AcctHolders(t, args[t].from) ELSE {}
    [] pc[t] = "g_credit" -> AcctHolders(t, args[t].to)
    [] pc[t] = "b_credit" ->
         IF UpdateCase(t, args[t].to, m, FALSE) = "wait"
           THEN AcctHolders(t, args[t].to) ELSE {}
    [] OTHER -> {}

\* t waits, directly or through others, for a unit of work that waits for t
Deadlocked(t) ==
  LET R[i \in 0..NumTasks] ==
        IF i = 0 THEN WaitsFor(t)
        ELSE R[i - 1] \cup UNION {WaitsFor(u) : u \in R[i - 1]}
  IN  t \in R[NumTasks]

\* variant: a store that never breaks a lock wait cycle
DeadlockAbort_Never(t) == FALSE

\* the store detects the deadlock and fails the statement of one of the
\* units of work in the cycle; the error leaves through `?`
DeadlockAbort(t) ==
  /\ InFlight(t)
  /\ Deadlocked(t)
  /\ Return(t, Err("Sqlx", "deadlock detected"))

(* --------------------------- specification ----------------------------- *)

TaskStep(t) ==
  \/ Begin(t)
  \/ BeginFail(t)
  \/ GoodInsert(t)
  \/ GoodDebit(t)
  \/ GoodCredit(t)
  \/ GoodCommit(t)
  \/ BadSelect(t)
  \/ BadDebit(t)
  \/ BadCredit(t)
  \/ BadInsert(t)
  \/ BadCommit(t)
  \/ DeadlockAbort(t)

Next ==
  \/ \E t \in Tasks : TaskStep(t)
  \/ Verify

Spec == Init /\ [][Next]_vars

\* the steps of a task when no other unit of work can be open: no statement
\* waits, so the store detects no deadlock
TaskStepSeq(t) ==
  \/ Begin(t)
  \/ BeginFail(t)
  \/ GoodInsert(t)
  \/ GoodDebit(t)
  \/ GoodCredit(t)
  \/ GoodCommit(t)
  \/ BadSelect(t)
  \/ BadDebit(t)
  \/ BadCredit(t)
  \/ BadInsert(t)
  \/ BadCommit(t)

NextSeq ==
  \/ \E t \in Tasks : TaskStepSeq(t)
  \/ Verify

\* transfers of both strategies run one at a time
SpecSeq == InitSeq /\ [][NextSeq]_vars

TaskStepWide(t) ==
  \/ BeginWide(t)
  \/ BeginFail(t)
  \/ GoodInsert(t)
  \/ GoodDebit(t)
  \/ GoodCredit(t)
  \/ GoodCommit(t)
  \/ DeadlockAbort(t)

NextWide ==
  \/ \E t \in Tasks : TaskStepWide(t)
  \/ Verify

\* Strict transfers with amounts from the whole range of the u64 parameter
SpecWide == Init /\ [][NextWide]_vars

TaskStepAdd(t) ==
  \/ BeginDriver(t)
  \/ BeginFail(t)
  \/ GoodInsert(t)
  \/ GoodDebit(t)
  \/ GoodCredit(t)
  \/ GoodCommit(t)
  \/ BadSelect(t)
  \/ BadDebit(t)
  \/ BadCredit(t)
  \/ BadInsert(t)
  \/ BadCommit(t)
  \/ DeadlockAbort(t)

NextAdd ==
  \/ \E t \in Tasks : TaskStepAdd(t)
  \/ Verify
  \/ \E address \in Addresses, initial_balance \in AddInitials :
       add_account(address, initial_balance)

\* transfers and calls of add_account on a store that starts empty
SpecAdd == InitAdd /\ [][NextAdd]_vars

\* the runtime polls every spawned task and main, and the store completes
\* every statement that is not waiting for a lock
FairSpec ==
  /\ Spec
  /\ \A t \in Tasks : WF_vars(TaskStep(t))
  /\ WF_vars(Verify)

(* ----------------------- vocabulary of the claims ---------------------- *)

\* the invocation got a unit of work (its arguments are known)
Begun(t) == args[t] # NoArgs

Done(t) == pc[t] = "done"

AllDone == \A t \in Tasks : Done(t)

Committed(t) == result[t] = Ok(1)

Skipped(t) == result[t] = Ok(0)

StrictOnly == \A t \in Tasks : args[t].strategy # "Relaxed"

RelaxedOnly == \A t \in Tasks : args[t].strategy # "Strict"

DistinctHashes ==
  \A t, u \in Tasks :
    (t # u /\ Begun(t) /\ Begun(u)) => args[t].tx_hash # args[u].tx_hash

RECURSIVE SumBalances(_, _)
SumBalances(f, S) ==
  IF S = {} THEN 0
  ELSE LET a == CHOOSE x \in S : TRUE IN f[a] + SumBalances(f, S \ {a})

TotalBalance == SumBalances(accounts, DOMAIN accounts)

RECURSIVE SumAmounts(_)
SumAmounts(E) ==
  IF E = {} THEN 0
  ELSE LET e == CHOOSE x \in E : TRUE IN e.amount + SumAmounts(E \ {e})

\* ledger amounts received by, and sent from, account a
Credits(a) == SumAmounts({e \in transaction : e.to_address = a})

Debits(a) == SumAmounts({e \in transaction : e.from_address = a})

\* the balance an account was created with: the seeding of main, or 0 for a
\* recipient created by the upsert credit
InitialFunding(a) == IF a \in Seeded THEN InitialBalance ELSE 0

\* the reconciliation discrepancy of account a
Discrepancy(a) == accounts[a] - (InitialFunding(a) + Credits(a) - Debits(a))

(* -------------------------------- C1 ----------------------------------- *)

\* C1: in a run of Strict transfers only, with positive amounts and accounts
\* seeded with a balance >= 0, every committed balance is >= 0 in every
\* reachable state, whatever the interleaving; two concurrent transfers from
\* one source that the source cannot pay for together never both commit.
C1_NonNegative ==
  StrictOnly =>
    /\ \A a \in DOMAIN accounts : accounts[a] >= 0
    /\ \A t, u \in Tasks :
         ( /\ t # u /\ Committed(t) /\ Committed(u)
           /\ args[t].from = args[u].from
           /\ args[t].to # args[t].from /\ args[u].to # args[u].from )
         => AsI64(args[t].amount) + AsI64(args[u].amount)
              <= InitialFunding(args[t].from) + Credits(args[t].from)

\* two Strict transfers from one source overlap: one has debited and not
\* yet committed, the other's guarded debit waits for it, and the committed
\* balance covers each amount but not both
C1_Witness ==
  \E t, u \in Tasks :
    /\ t # u /\ StrictOnly
    /\ pc[t] = "g_commit" /\ pc[u] = "g_debit"
    /\ args[t].from = args[u].from /\ args[t].to # args[t].from
    /\ args[t].from \in DOMAIN accounts
    /\ AsI64(args[t].amount) <= accounts[args[t].from]
    /\ AsI64(args[u].amount) <= accounts[args[t].from]
    /\ AsI64(args[t].amount) + AsI64(args[u].amount) > accounts[args[t].from]
    /\ UpdateCase(u, args[u].from, AsI64(args[u].amount), TRUE)
         = "wait"

(* -------------------------------- C2 ----------------------------------- *)

\* C2: in a run of Strict transfers only, the sum of all committed balances
\* stays what the seeding made it, and a step in which an invocation ends
\* without Ok(1) changes no committed balance.
C2_Conservation ==
  /\ [](StrictOnly => TotalBalance = Cardinality(Seeded) * InitialBalance)
  /\ [][\A t \in Tasks :
          (StrictOnly /\ ~Done(t) /\ Done(t)' /\ result'[t] # Ok(1))
          => accounts' = accounts]_vars

\* a Strict transfer between two different existing accounts has committed
\* and another Strict invocation has failed or was skipped
C2_Witness ==
  \E t, u \in Tasks :
    /\ StrictOnly /\ Committed(t) /\ args[t].from # args[t].to
    /\ args[t].to \in Seeded
    /\ Done(u) /\ Begun(u) /\ ~Committed(u)

(* -------------------------------- C3 ----------------------------------- *)

\* C3: in every committed state of a run of Strict transfers only, every
\* account's balance equals its initial funding plus the ledger amounts sent
\* to it minus the ledger amounts sent from it.
C3_Reconciled ==
  StrictOnly => \A a \in DOMAIN accounts : Discrepancy(a) = 0

\* a recipient that was not seeded was created by the upsert credit and has
\* since sent part of what it received
C3_Witness ==
  /\ StrictOnly
  /\ \E a \in DOMAIN accounts \ Seeded : Credits(a) > 0 /\ Debits(a) > 0

(* -------------------------------- C4 ----------------------------------- *)

\* C4: among the Strict invocations that share a tx_hash at most one commits,
\* and a Strict invocation whose ledger insert finds the tx_hash committed
\* returns Ok(0) and changes no balance and no ledger row.
C4_Idempotent ==
  /\ [](\A t, u \in Tasks :
          ( /\ args[t].strategy = "Strict" /\ args[u].strategy = "Strict"
            /\ args[t].tx_hash = args[u].tx_hash
            /\ Committed(t) /\ Committed(u) ) => t = u)
  /\ [][\A t \in Tasks :
          ( /\ args[t].strategy = "Strict" /\ pc[t] = "g_insert"
            /\ pc'[t] # "g_insert"
            /\ \E e \in transaction : e.tx_hash = args[t].tx_hash )
          => /\ result'[t] = Ok(0)
             /\ accounts' = accounts
             /\ transaction' = transaction]_vars

\* two Strict invocations share a tx_hash: one committed, the other was
\* skipped
C4_Witness ==
  \E t, u \in Tasks :
    /\ t # u
    /\ args[t].strategy = "Strict" /\ args[u].strategy = "Strict"
    /\ args[t].tx_hash = args[u].tx_hash
    /\ Committed(t) /\ Skipped(u)

(* -------------------------------- C5 ----------------------------------- *)

\* C5: under both strategies the committed ledger holds at most one entry
\* per tx_hash, an insert that finds its tx_hash committed ends the
\* invocation with Ok(0) and not with an error, and no step changes or
\* removes a committed entry.
C5_LedgerUnique ==
  /\ [](\A e, g \in transaction : e.tx_hash = g.tx_hash => e = g)
  /\ [][/\ transaction \subseteq transaction'
        /\ \A t \in Tasks :
             ( /\ pc[t] \in {"g_insert", "b_insert"}
               /\ pc'[t] # pc[t]
               /\ \E e \in transaction : e.tx_hash = args[t].tx_hash )
             => result'[t] = Ok(0)]_vars

\* two invocations share a tx_hash and differ in their other arguments: one
\* committed its entry, the other, a Relaxed one, was skipped
C5_Witness ==
  \E t, u \in Tasks :
    /\ t # u
    /\ args[t].tx_hash = args[u].tx_hash
    /\ args[u].strategy = "Relaxed"
    /\ LedgerEntry(args[t]) # LedgerEntry(args[u])
    /\ Committed(t) /\ Skipped(u)

(* -------------------------------- C6 ----------------------------------- *)

\* the Relaxed invocation t is past its balance check
PastCheck(t) ==
  /\ args[t].strategy = "Relaxed"
  /\ \/ pc[t] \in {"b_debit", "b_credit", "b_insert", "b_commit"}
     \/ Committed(t)

\* C6: every Relaxed transfer that debits has passed the check balance >=
\* amount on its own read, and still the committed balance of a source can
\* be negative (C6_Witness); in a run of Relaxed transfers only that takes
\* at least two committed transfers out of that source.
C6_RaceOnly ==
  /\ \A t \in Tasks : PastCheck(t) => from_balance[t] >= AsI64(args[t].amount)
  /\ RelaxedOnly =>
       \A a \in DOMAIN accounts :
         accounts[a] < 0 =>
           \E t, u \in Tasks :
             /\ t # u /\ Committed(t) /\ Committed(u)
             /\ args[t].from = a /\ args[u].from = a

\* two Relaxed transfers from one source have committed, each passed the
\* check on the balance it read, and the committed source balance is
\* negative
C6_Witness ==
  \E t, u \in Tasks :
    /\ t # u /\ PastCheck(t) /\ PastCheck(u)
    /\ Committed(t) /\ Committed(u)
    /\ args[t].from = args[u].from
    /\ from_balance[t] >= AsI64(args[t].amount)
    /\ from_balance[u] >= AsI64(args[u].amount)
    /\ accounts[args[t].from] < 0

(* -------------------------------- C7 ----------------------------------- *)

\* the workload of main run with bad_transfer: every invocation moves
\* DriverAmount out of DriverFrom under its own tx_hash
RelaxedDriverRun ==
  /\ DistinctHashes
  /\ \A t \in Tasks :
       Begun(t) => /\ args[t].strategy = "Relaxed"
                   /\ args[t].from = DriverFrom
                   /\ args[t].amount = DriverAmount

\* C7 as claimed: a finished run of concurrent Relaxed transfers with
\* distinct tx_hash values from one source in which the race drove the
\* source negative leaves a nonzero reconciliation discrepancy for it.
C7_Original ==
  (AllDone /\ RelaxedDriverRun /\ accounts[DriverFrom] < 0)
    => Discrepancy(DriverFrom) # 0

\* C7 as amended: in every state of every run of Relaxed transfers with
\* distinct tx_hash values the reconciliation discrepancy of every account
\* is zero; the race makes the balance negative, never inconsistent with
\* the committed ledger entries.
C7_Amended ==
  (RelaxedOnly /\ DistinctHashes) =>
    \A a \in DOMAIN accounts : Discrepancy(a) = 0

\* the driver's Relaxed run has finished with the source overdrawn by two
\* committed transfers
C7_Witness ==
  /\ AllDone /\ RelaxedDriverRun
  /\ accounts[DriverFrom] < 0
  /\ Cardinality({t \in Tasks : Committed(t)}) >= 2
  /\ Debits(DriverFrom) > InitialBalance

(* -------------------------------- C8 ----------------------------------- *)

\* the workload of main run with good_transfer: every invocation moves
\* DriverAmount from DriverFrom to a seeded account under its own tx_hash
StrictDriverRun ==
  /\ DistinctHashes
  /\ \A t \in Tasks :
       Begun(t) => /\ args[t].strategy = "Strict"
                   /\ args[t].from = DriverFrom
                   /\ args[t].to \in Seeded
                   /\ args[t].amount = DriverAmount

\* C8 as claimed: after a Strict run of the driver workload, DriverAmount
\* times the number of committed invocations is the decrease of the source.
C8_Original ==
  (AllDone /\ StrictDriverRun) =>
    DriverAmount * Cardinality({t \in Tasks : Committed(t)})
      = InitialBalance - accounts[DriverFrom]

\* C8 as amended: after a Strict run of the driver workload, DriverAmount
\* times the number of committed invocations whose destination is not the
\* source itself is the decrease of the source.
C8_Amended ==
  (AllDone /\ StrictDriverRun) =>
    DriverAmount
      * Cardinality({t \in Tasks : Committed(t) /\ args[t].to # DriverFrom})
      = InitialBalance - accounts[DriverFrom]

\* the Strict driver run has finished with a committed transfer from the
\* source to itself and a committed transfer to another account
C8_Witness ==
  /\ AllDone /\ StrictDriverRun
  /\ \E t, u \in Tasks :
       /\ Committed(t) /\ args[t].to = DriverFrom
       /\ Committed(u) /\ args[u].to # DriverFrom

(* -------------------------------- C9 ----------------------------------- *)

\* C9 as claimed: a transfer, of either strategy, whose from address has no
\* account row and whose tx_hash is new ends with AccountNotFound(from).
C9_UnknownSender ==
  \A t \in Tasks :
    ( /\ Done(t) /\ Begun(t) /\ ~Skipped(t)
      /\ args[t].from \notin DOMAIN accounts )
    => result[t] = Err("AccountNotFound", args[t].from)

(* -------------------------------- C10 ---------------------------------- *)

\* no other invocation holds a unit of work
Lone(t) == \A u \in Tasks \ {t} : ~InFlight(u)

\* C10: when a Strict transfer that runs alone reaches its debit with an
\* amount above the committed balance of its source, the step ends it with
\* InsufficientFunds(from), leaves every balance and the ledger as they
\* were, and leaves no entry, committed or pending, for its tx_hash.
C10_LoneInsufficient ==
  [][\A t \in Tasks :
       ( /\ args[t].strategy = "Strict" /\ pc[t] = "g_debit"
         /\ pc'[t] # "g_debit" /\ Lone(t)
         /\ args[t].from \in DOMAIN accounts
         /\ AsI64(args[t].amount) > accounts[args[t].from] )
       => /\ result'[t] = Err("InsufficientFunds", args[t].from)
          /\ accounts' = accounts
          /\ transaction' = transaction
          /\ \A e \in transaction' : e.tx_hash # args[t].tx_hash
          /\ \A u \in Tasks : wLedger'[u] = {}]_vars

\* the first Strict transfer of a run asked for more than its seeded source
\* holds and ended with InsufficientFunds before any other invocation began
C10_Witness ==
  \E t \in Tasks :
    /\ args[t].strategy = "Strict" /\ Done(t)
    /\ result[t] = Err("InsufficientFunds", args[t].from)
    /\ args[t].from \in DOMAIN accounts
    /\ AsI64(args[t].amount) > accounts[args[t].from]
    /\ \A u \in Tasks \ {t} : pc[u] = "spawned"
    /\ transaction = {}

(* -------------------------------- C11 ---------------------------------- *)

\* C11: under both strategies, a step in which an invocation ends with an
\* error leaves every committed balance and the committed ledger as they
\* were, and nothing the invocation wrote stays behind; what other
\* invocations committed is kept.
C11_ErrorLeavesNoWrite ==
  /\ [](\A t \in Tasks : Done(t) => wAcct[t] = Empty /\ wLedger[t] = {})
  /\ [][\A t \in Tasks :
          (~Done(t) /\ Done(t)' /\ result'[t].tag = "Err")
          => accounts' = accounts /\ transaction' = transaction]_vars

\* a Relaxed transfer to a recipient without a row failed with Other after
\* its debit, the sender's committed balance still reconciles with the
\* ledger, and the transfer another invocation committed before is in place
C11_Witness ==
  \E t, u \in Tasks :
    /\ t # u
    /\ args[t].strategy = "Relaxed"
    /\ result[t] = Err("Other", "Failed to update recipient account")
    /\ args[t].from \in DOMAIN accounts
    /\ Committed(u) /\ args[u].from = args[t].from /\ args[u].to # args[u].from
    /\ accounts[args[t].from] = InitialBalance - AsI64(args[u].amount)

(* -------------------------------- C12 ---------------------------------- *)

\* C12: a call of add_account for an address that has no row creates the
\* row with the balance passed and reports 1 row; a call for an address
\* that has a row reports 0 rows and changes nothing, whatever balance it
\* passes and whatever transfers ran before it; so of the calls made for
\* one address only the first can report a row.
C12_AddAccountIdempotent ==
  /\ [](\A k, l \in 1..Len(adds) :
          (k < l /\ adds[k].address = adds[l].address) => adds[l].rows = 0)
  /\ [][Len(adds') > Len(adds) =>
          LET c == adds'[Len(adds')] IN
            IF c.address \in DOMAIN accounts
              THEN c.rows = 0 /\ accounts' = accounts
              ELSE /\ c.rows = 1
                   /\ DOMAIN accounts' = DOMAIN accounts \cup {c.address}
                   /\ accounts'[c.address] = AsI64(c.initial)
                   /\ \A x \in DOMAIN accounts : accounts'[x] = accounts[x]]_vars

\* the account was added, a committed transfer changed its balance, and a
\* second call for it with another initial balance reported 0 rows and left
\* the balance different from both balances passed
C12_Witness ==
  /\ Len(adds) = 2
  /\ adds[1].address = adds[2].address
  /\ adds[1].initial # adds[2].initial
  /\ adds[1].rows = 1 /\ adds[2].rows = 0
  /\ accounts[adds[1].address] # AsI64(adds[1].initial)
  /\ accounts[adds[1].address] # AsI64(adds[2].initial)
  /\ \E t \in Tasks : Committed(t) /\ args[t].to = adds[1].address

(* -------------------------------- C14 ---------------------------------- *)

\* the accounts whose row the verifier's loop has summed
Summed == DOMAIN accounts \ {row.address : row \in all}

\* C14: for each account the verifier takes initial + (amounts of the
\* entries whose to_address is the account) - (amounts of the entries whose
\* from_address is the account) as the expected balance and adds balance -
\* expected to the discrepancy it returns: while the loop runs, diff is the
\* sum of these terms over the accounts summed so far.
C14_ExpectedBalance ==
  main_pc \in {"ledger_loop", "ledger_verified"} =>
    diff = SumBalances([a \in DOMAIN accounts |->
                          accounts[a] - (initial + Credits(a) - Debits(a))],
                       Summed)

(* -------------------------------- C15 ---------------------------------- *)

\* C15: the verifier returns zero only if every account satisfies
\* balance = initial + credit - debit; discrepancies of opposite sign do not
\* cancel.
C15_ZeroOnlyIfConsistent ==
  (main_pc = "ledger_verified" /\ diff = 0) =>
    \A a \in DOMAIN accounts :
      accounts[a] = initial + Credits(a) - Debits(a)

(* -------------------------------- C16 ---------------------------------- *)

\* the Relaxed invocation t takes its ledger insert and finds its tx_hash
\* in a committed ledger entry
SkipStep(t) ==
  /\ args[t].strategy = "Relaxed"
  /\ pc[t] = "b_insert" /\ pc'[t] # "b_insert"
  /\ HashCommitted(args[t].tx_hash)

\* C16 as stated: the step ends the transfer with Ok(0) and the debit and
\* credit it applied take effect on the committed balances.
C16_Original ==
  [][\A t \in Tasks :
       SkipStep(t) => /\ result'[t] = Ok(0)
                      /\ accounts' = Applied(t)
                      /\ transaction' = transaction]_vars

\* C16 amended: the step ends the transfer with Ok(0), and the debit and
\* credit it applied are rolled back with the unit of work: committed
\* balances and ledger stay as they were and nothing of t stays pending.
C16_Amended ==
  [][\A t \in Tasks :
       SkipStep(t) => /\ result'[t] = Ok(0)
                      /\ accounts' = accounts
                      /\ transaction' = transaction
                      /\ wAcct'[t] = Empty /\ wLedger'[t] = {}]_vars

\* a Relaxed transfer between two different accounts was skipped because
\* its tx_hash was committed by a transfer that does not touch its source,
\* and its source still has the initial balance
C16_Witness ==
  \E t, u \in Tasks :
    /\ t # u /\ args[t].strategy = "Relaxed" /\ Skipped(t)
    /\ args[t].from # args[t].to
    /\ Committed(u) /\ args[u].tx_hash = args[t].tx_hash
    /\ args[u].from # args[t].from /\ args[u].to # args[t].from
    /\ from_balance[t] >= AsI64(args[t].amount)
    /\ accounts[args[t].from] = InitialBalance

(* -------------------------------- C18 ---------------------------------- *)

\* the Relaxed invocation t commits
RelaxedCommitStep(t) ==
  /\ args[t].strategy = "Relaxed"
  /\ pc[t] = "b_commit" /\ pc'[t] = "done"

\* C18: in a run of Relaxed transfers only (which need both accounts to
\* exist) the sum of the committed balances stays what was seeded, whatever
\* the interleaving; every committed Relaxed transfer subtracts its amount
\* from the current balance of its source and adds it to the current
\* balance of its destination in one step.
C18_RelaxedConservation ==
  /\ [](RelaxedOnly =>
          TotalBalance = Cardinality(Seeded) * InitialBalance)
  /\ [][\A t \in Tasks :
          RelaxedCommitStep(t) =>
            LET f == args[t].from
                o == args[t].to
                m == AsI64(args[t].amount)
            IN  /\ DOMAIN accounts' = DOMAIN accounts
                /\ \A x \in DOMAIN accounts :
                     accounts'[x] = accounts[x]
                                    - (IF x = f THEN m ELSE 0)
                                    + (IF x = o THEN m ELSE 0)]_vars

\* two Relaxed transfers from one source to another account both committed
\* and drove the source negative, and the sum of the balances is what was
\* seeded
C18_Witness ==
  /\ RelaxedOnly
  /\ \E t, u \in Tasks :
       /\ t # u /\ Committed(t) /\ Committed(u)
       /\ args[t].from = args[u].from
       /\ args[t].to # args[t].from /\ args[u].to # args[u].from
       /\ accounts[args[t].from] < 0
  /\ TotalBalance = Cardinality(Seeded) * InitialBalance

(* -------------------------------- C19 ---------------------------------- *)

\* the request of t has a tx_hash without committed entry and a sender and
\* a recipient that exist
FreshRequest(t) ==
  /\ Begun(t)
  /\ ~HashCommitted(args[t].tx_hash)
  /\ args[t].from \in DOMAIN accounts
  /\ args[t].to \in DOMAIN accounts

\* what a transfer of either strategy that runs alone is to leave: reject
\* with InsufficientFunds and change nothing when the amount is above the
\* sender's balance, else commit the ledger entry, the debit and the credit
SeqOutcome(t) ==
  LET f == args[t].from
      o == args[t].to
      m == AsI64(args[t].amount)
  IN  IF accounts[f] < m
        THEN [result |-> Err("InsufficientFunds", f),
              accounts |-> accounts, transaction |-> transaction]
        ELSE [result |-> Ok(1),
              accounts |-> [x \in DOMAIN accounts |->
                              accounts[x] - (IF x = f THEN m ELSE 0)
                                          + (IF x = o THEN m ELSE 0)],
              transaction |-> transaction \cup {LedgerEntry(args[t])}]

\* C19: when transfers run one at a time, a request with a fresh tx_hash
\* and existing sender and recipient ends the same way under both
\* strategies: the step that ends it returns what SeqOutcome says, which
\* does not depend on the strategy, and leaves those balances and ledger
\* entries; so the two strategies agree on every sequence of such requests,
\* and no balance becomes negative.
C19_SequentialEquivalence ==
  /\ [](\A t, u \in Tasks : (InFlight(t) /\ InFlight(u)) => t = u)
  /\ [](\A a \in DOMAIN accounts : accounts[a] >= 0)
  /\ [][\A t \in Tasks :
          (FreshRequest(t) /\ ~Done(t) /\ Done(t)')
            => /\ result'[t] = SeqOutcome(t).result
               /\ accounts' = SeqOutcome(t).accounts
               /\ transaction' = SeqOutcome(t).transaction]_vars

\* a Relaxed and a Strict transfer with the same sender, recipient and
\* amount ran one after the other under different tx_hash values; the
\* first committed and the second was rejected with InsufficientFunds
C19_Witness ==
  \E t, u \in Tasks :
    /\ args[t].strategy = "Relaxed" /\ args[u].strategy = "Strict"
    /\ args[t].tx_hash # args[u].tx_hash
    /\ args[t].from = args[u].from /\ args[t].to = args[u].to
    /\ args[t].from # args[t].to /\ args[t].to \in Seeded
    /\ args[t].amount = args[u].amount
    /\ Committed(t) /\ result[u] = Err("InsufficientFunds", args[u].from)
    /\ accounts[args[t].from] = InitialBalance - AsI64(args[t].amount)

(* -------------------------------- C20 ---------------------------------- *)

\* the Strict invocation t commits
StrictCommitStep(t) ==
  /\ args[t].strategy = "Strict"
  /\ pc[t] = "g_commit" /\ pc'[t] = "done"

\* C20: for every amount of the parameter's type, the amounts the cast
\* turns negative included, a committed Strict transfer does not increase
\* the sender's balance and does not decrease the recipient's, and every
\* committed balance stays >= 0.
C20_WideAmounts ==
  /\ [](\A a \in DOMAIN accounts : accounts[a] >= 0)
  /\ [][\A t \in Tasks :
          StrictCommitStep(t) =>
            /\ accounts'[args[t].from] <= accounts[args[t].from]
            /\ args[t].to \in DOMAIN accounts =>
                 accounts'[args[t].to] >= accounts[args[t].to]]_vars

(* -------------------------------- C17 ---------------------------------- *)

\* C17: under fair scheduling every invocation of either strategy reaches a
\* terminal outcome, Ok or a reported error, whatever the (from, to) pairs:
\* no wait for a row lock, a tx_hash or a pool connection lasts forever.
C17_Terminates ==
  \A t \in Tasks : <>(Done(t) /\ result[t].tag \in {"Ok", "Err"})

\* two transfers in opposite directions between two accounts wait for each
\* other's row lock
C17_Witness ==
  \E t, u \in Tasks :
    /\ t # u
    /\ args[t].from = args[u].to /\ args[t].to = args[u].from
    /\ args[t].from # args[t].to
    /\ u \in WaitsFor(t) /\ t \in WaitsFor(u)

(* -------------------------------- C13 ---------------------------------- *)

\* the invocation ended with an error: a transfer error or no transaction
Failed(t) == Done(t) /\ result[t].tag = "Err"

\* C13: a step in which an invocation fails changes no other invocation's
\* position or result; under fair scheduling, once an invocation has failed
\* every sibling still finishes and main reaches its verification read; and
\* the read is made only when every spawned invocation has terminated.
C13_Isolated ==
  /\ [](main_pc = "verified" => \A t \in Tasks : ~InFlight(t) /\ Done(t))
  /\ [][\A t \in Tasks :
          (~Done(t) /\ Failed(t)')
          => \A u \in Tasks \ {t} : pc'[u] = pc[u] /\ result'[u] = result[u]]_vars
  /\ (\E t \in Tasks : Failed(t)) ~> (AllDone /\ main_pc = "verified")

\* main has made its read after one invocation failed, to begin a
\* transaction or in its transfer, and a sibling that began after it
\* committed a transfer out of the source
C13_Witness ==
  /\ main_pc = "verified"
  /\ \E t, u \in Tasks :
       /\ t < u /\ Failed(t) /\ Committed(u)
       /\ args[u].from = DriverFrom /\ args[u].to # DriverFrom
       /\ diff = InitialBalance - AsI64(args[u].amount)

====
